---- MODULE Spec2Model ----
(***************************************************************************)
(* kerncraft/models/benchmark.py: the register descriptor expander         *)
(* (group_iterator, register_options), the run scheduler                   *)
(* (build_minimal_runs) and the measurement pipeline of Benchmark.analyze. *)
(*                                                                         *)
(* Python strings are sequences of one-character strings; a generator is   *)
(* the sequence of the values it yields plus a flag telling whether it     *)
(* raises after the last of them; a dict is the sequence of its items in   *)
(* insertion order.                                                        *)
(***************************************************************************)
EXTENDS Integers, Sequences, FiniteSets, TLC

\* ------------------------------------------------------------------------
\* Bounds of the model
\* ------------------------------------------------------------------------
\* longest event list handed to build_minimal_runs
MaxEvents == 3
\* largest number of same-descriptor events (InitUniform)
MaxUniform == 5
\* sweeps of build_minimal_runs explored before the model stops following
\* a non-terminating call
MaxSweeps == 7
\* calibration probes explored before the model stops following a
\* calibration loop that does not end
MaxProbes == 5

\* register_options is expanded for every descriptor of at most this many
\* characters
MaxDescrLen == 5
\* longest output of the profiling tool, in lines, that perfctr parses
MaxLines == 3

\* ------------------------------------------------------------------------
\* Python helpers
\* ------------------------------------------------------------------------
\* Python's None
None == <<"None">>

\* list.index(e): position of the first element equal to e
index(seq, e) == CHOOSE i \in 1..Len(seq) : seq[i] = e /\ \A j \in 1..(i-1) : seq[j] # e

\* e in list
contains(seq, e) == \E i \in 1..Len(seq) : seq[i] = e

\* str.split(sep): the pieces between the separators, empty pieces kept
RECURSIVE split(_, _)
split(s, sep) ==
    IF ~contains(s, sep) THEN <<s>>
    ELSE LET i == index(s, sep)
         IN  <<SubSeq(s, 1, i-1)>> \o split(SubSeq(s, i+1, Len(s)), sep)

\* ------------------------------------------------------------------------
\* group_iterator
\* ------------------------------------------------------------------------
\* string.ascii_letters + string.digits
ordered_chars ==
    << "a","b","c","d","e","f","g","h","i","j","k","l","m",
       "n","o","p","q","r","s","t","u","v","w","x","y","z",
       "A","B","C","D","E","F","G","H","I","J","K","L","M",
       "N","O","P","Q","R","S","T","U","V","W","X","Y","Z",
       "0","1","2","3","4","5","6","7","8","9" >>

\* the character class [a-zA-Z0-9] of the tokenizer
IsAlnum(c) == contains(ordered_chars, c)

\* mutant: the range stops one character short of its end
char_range_exclusive(lo, hi) == [k \in 1..(IF hi > lo THEN hi - lo ELSE 0) |-> ordered_chars[lo + k - 1]]

\* [ordered_chars[i] for i in range(lo, hi + 1)], empty when hi < lo
char_range(lo, hi) == [k \in 1..(IF hi >= lo THEN hi - lo + 1 ELSE 0) |-> ordered_chars[lo + k - 1]]

\* the characters a bracket group stands for: x-y is a range, any other
\* character stands for itself
RECURSIVE group_iterator(_)
group_iterator(group) ==
    IF group = <<>> THEN <<>>
    ELSE IF Len(group) >= 3 /\ IsAlnum(group[1]) /\ group[2] = "-" /\ IsAlnum(group[3])
         THEN char_range(index(ordered_chars, group[1]), index(ordered_chars, group[3]))
                 \o group_iterator(SubSeq(group, 4, Len(group)))
         ELSE <<group[1]>> \o group_iterator(Tail(group))

\* ------------------------------------------------------------------------
\* register_options
\* ------------------------------------------------------------------------
\* re.match(tokenizer, u) for a non-empty u: the end of the match and the
\* characters the first token stands for.  '[' followed by at least one
\* character other than ']' and then ']' is a group, anything else is the
\* single first character.
token_match(u) ==
    LET closes == {j \in 2..Len(u) : u[j] = "]"}
        isgrp  == u[1] = "[" /\ closes # {} /\ \A j \in closes : j >= 3
        close  == CHOOSE j \in closes : \A k \in closes : j <= k
    IN  IF isgrp
        THEN [end |-> close, current |-> group_iterator(SubSeq(u, 2, close - 1))]
        ELSE [end |-> 1, current |-> <<u[1]>>]

\* generator followed by generator: the second one runs only when the first
\* one did not raise
chain(g1, g2) ==
    IF g1.fail THEN g1 ELSE [regs |-> g1.regs \o g2.regs, fail |-> g2.fail]

\* for c in current: for r in sub: yield c + r
RECURSIVE prefix_each(_, _)
prefix_each(current, sub) ==
    IF current = <<>> THEN [regs |-> <<>>, fail |-> FALSE]
    ELSE chain([regs |-> [k \in 1..Len(sub.regs) |-> <<Head(current)>> \o sub.regs[k]],
                fail |-> sub.fail],
               prefix_each(Tail(current), sub))

RECURSIVE register_options(_)

\* the body of the loop over the alternatives, for one alternative u;
\* re.match returns None on an empty u and m.group raises AttributeError
alternative(u) ==
    IF u = <<>> THEN [regs |-> <<>>, fail |-> TRUE]
    ELSE LET m    == token_match(u)
             rest == SubSeq(u, m.end + 1, Len(u))
         IN  IF rest # <<>>
             THEN prefix_each(m.current, register_options(rest))
             ELSE [regs |-> [k \in 1..Len(m.current) |-> <<m.current[k]>>], fail |-> FALSE]

RECURSIVE alternatives(_)
alternatives(us) ==
    IF us = <<>> THEN [regs |-> <<>>, fail |-> FALSE]
    ELSE chain(alternative(Head(us)), alternatives(Tail(us)))

\* the generator register_options(regdescr): the names it yields, in order,
\* and whether it raises after them.  The empty descriptor yields None and
\* then falls through to the loop.
register_options(regdescr) ==
    chain([regs |-> IF regdescr = <<>> THEN <<None>> ELSE <<>>, fail |-> FALSE],
          alternatives(split(regdescr, "|")))

\* ------------------------------------------------------------------------
\* dict helpers (a dict is the sequence of its items, in insertion order)
\* ------------------------------------------------------------------------
\* key in d
has_key(d, k) == \E i \in 1..Len(d) : d[i].key = k

\* d[k]
dict_get(d, k) == d[CHOOSE i \in 1..Len(d) : d[i].key = k].val

\* d[k] = v: an existing key keeps its position, a new key goes last
dict_set(d, k, v) ==
    IF has_key(d, k)
    THEN [i \in 1..Len(d) |-> IF d[i].key = k THEN [key |-> k, val |-> v] ELSE d[i]]
    ELSE Append(d, [key |-> k, val |-> v])

\* list(d.values())
dict_values(d) == [i \in 1..Len(d) |-> d[i].val]

\* ------------------------------------------------------------------------
\* State
\* ------------------------------------------------------------------------
VARIABLES
    pc,                 \* build_minimal_runs: position in the function
    events,             \* build_minimal_runs: the events argument / local
    scheduled_runs,     \* build_minimal_runs: dict run index -> dict register -> triple
    scheduled_events,   \* build_minimal_runs: list of the events placed so far
    cur_run,            \* build_minimal_runs: run index of the current sweep
    ev_i,               \* build_minimal_runs: position of the for loop in events
    runs,               \* build_minimal_runs: the returned list of runs
    arg_events,         \* the caller's list passed as events (never mutated)
    apc,                \* analyze: position in the method
    runtime,            \* analyze: runtime of the last probe, in milliseconds
    time_per_repetition,\* analyze: runtime / float(repetitions), as num / den
    repetitions,        \* analyze: repetition count
    no_phenoecm,        \* Benchmark.no_phenoecm
    event_counters,     \* analyze: dict symbol -> (event, registers, parameters)
    minimal_runs,       \* analyze: the runs build_minimal_runs returned
    run_i,              \* analyze: position of the loop over minimal_runs
    measured_ctrs,      \* analyze: dict event -> dict register -> value
    event_counter_results, \* analyze: dict symbol -> value
    total_iterations,   \* analyze: iteration_length() * repetitions
    results,            \* Benchmark.results
    executor,           \* how the profiled benchmark's runtime behaves
    calls,              \* the perfctr invocations made so far, with their outcome
    raw_results,        \* analyze: the dicts perfctr returned, in call order
    fn_pc,              \* a function called on its own: its position
    fn_arg,             \* a function called on its own: its arguments
    fn_result,          \* a function called on its own: what it has built so far
    fn_i                \* a function called on its own: position of its loop

bmr_vars == <<pc, events, scheduled_runs, scheduled_events, cur_run, ev_i, runs, arg_events>>

analyze_vars == <<apc, runtime, time_per_repetition, repetitions, no_phenoecm, event_counters,
                  minimal_runs, run_i, measured_ctrs, event_counter_results, total_iterations,
                  results, executor, calls, raw_results>>

fn_vars == <<fn_pc, fn_arg, fn_result, fn_i>>

vars == <<pc, events, scheduled_runs, scheduled_events, cur_run, ev_i, runs, arg_events,
          apc, runtime, time_per_repetition, repetitions, no_phenoecm, event_counters,
          minimal_runs, run_i, measured_ctrs, event_counter_results, total_iterations,
          results, executor, calls, raw_results, fn_pc, fn_arg, fn_result, fn_i>>

\* ------------------------------------------------------------------------
\* Inputs of build_minimal_runs
\* ------------------------------------------------------------------------
PMC0      == <<"P","M","C","0">>
PMC1      == <<"P","M","C","1">>
PMC01     == <<"P","M","C","[","0","-","1","]">>
PMC0grp   == <<"P","M","C","[","0","]">>
PMC10     == <<"P","M","C","[","1","-","0","]">>
PMC0bar   == <<"P","M","C","0","|">>
PMC1or0   == <<"P","M","C","1","|","P","M","C","0">>
PMC02     == <<"P","M","C","[","0","-","2","]">>
NoDescr   == <<>>

\* an event's parameters: None or a dict
no_parameters == [none |-> TRUE]
Threshold == [items |-> <<[key |-> "THRESHOLD", val |-> 2342]>>]

Event(n, d, p) == [event |-> n, registers |-> d, parameters |-> p]

\* the events the event lists of Init are made of
EventUniverse ==
    { Event("A", PMC01, no_parameters), Event("B", PMC01, no_parameters),
      Event("C", PMC01, no_parameters),
      Event("B", PMC0, no_parameters),  Event("A", PMC0, no_parameters),
      Event("A", PMC0, Threshold),      Event("A", PMC0grp, Threshold),
      Event("C", PMC10, no_parameters), Event("C", PMC1, no_parameters),
      Event("A", NoDescr, no_parameters), Event("B", NoDescr, no_parameters),
      Event("C", PMC0bar, no_parameters), Event("B", PMC1or0, no_parameters) }

\* all lists of at most n elements of S
SeqsUpTo(S, n) == UNION {[1..k -> S] : k \in 0..n}

\* event names of the same-descriptor inputs
UniformNames == <<"E1", "E2", "E3", "E4", "E5", "E6", "E7", "E8">>

\* descriptors of the same-descriptor inputs
UniformDescriptors == {PMC01, PMC0, PMC0grp, PMC10, PMC0bar, PMC1or0, PMC02, NoDescr}

\* ------------------------------------------------------------------------
\* build_minimal_runs
\* ------------------------------------------------------------------------
\* [e for i, e in enumerate(events) if events.index(e) == i]
RECURSIVE dedup_from(_, _)
dedup_from(evs, i) ==
    IF i > Len(evs) THEN <<>>
    ELSE (IF index(evs, evs[i]) = i THEN <<evs[i]>> ELSE <<>>) \o dedup_from(evs, i + 1)

eliminate_multiples(evs) == dedup_from(evs, 1)

\* mutant: a new dict for every event instead of the run's dict
current_run_dict_fresh == <<>>

\* scheduled_runs[cur_run] once setdefault has run, {} for a new key
current_run_dict == IF has_key(scheduled_runs, cur_run) THEN dict_get(scheduled_runs, cur_run) ELSE <<>>

\* mutant: every register counts as free
reg_is_free_always(s, possible_reg) == TRUE

\* "possible_reg not in s"
reg_is_free(s, possible_reg) == ~has_key(s, possible_reg)

\* mutant: the triple names the first register of the expansion
run_entry_first_option(event_tpl, possible_reg) ==
    [event |-> event_tpl.event, register |-> register_options(event_tpl.registers).regs[1],
     parameters |-> event_tpl.parameters]

\* the triple stored under s[possible_reg]
run_entry(event_tpl, possible_reg) ==
    [event |-> event_tpl.event, register |-> possible_reg, parameters |-> event_tpl.parameters]

\* mutant: only the first register of the expansion is tried
free_positions_first_only(opts, s) == {k \in 1..Len(opts.regs) : k = 1 /\ reg_is_free(s, opts.regs[k])}

\* mutant: only the last free register of the expansion is found
free_positions_last_only(opts, s) ==
    {k \in 1..Len(opts.regs) :
        /\ reg_is_free(s, opts.regs[k])
        /\ \A l \in (k + 1)..Len(opts.regs) : ~reg_is_free(s, opts.regs[l])}

\* the positions of the generator's output at which the inner for loop
\* finds a free register
free_positions(opts, s) == {k \in 1..Len(opts.regs) : reg_is_free(s, opts.regs[k])}

\* [list(v.values()) for v in scheduled_runs.values()]
collapse(sr) == [i \in 1..Len(sr) |-> dict_values(sr[i].val)]

\* lines 117-123: events de-duplicated, locals initialised
Dedup ==
    /\ pc = "call"
    /\ events' = eliminate_multiples(events)
    /\ scheduled_runs' = <<>>
    /\ scheduled_events' = <<>>
    /\ cur_run' = 0
    /\ pc' = "while"
    /\ UNCHANGED <<ev_i, runs, arg_events>>
    /\ UNCHANGED analyze_vars
    /\ UNCHANGED fn_vars

\* line 124, condition true: the for loop starts
EnterSweep ==
    /\ pc = "while"
    /\ Len(scheduled_events) # Len(events)
    /\ cur_run < MaxSweeps
    /\ pc' = "for"
    /\ ev_i' = 1
    /\ UNCHANGED <<events, scheduled_runs, scheduled_events, cur_run, runs, arg_events>>
    /\ UNCHANGED analyze_vars
    /\ UNCHANGED fn_vars

\* lines 128-129: the event is already scheduled
SkipScheduled ==
    /\ pc = "for"
    /\ ev_i <= Len(events)
    /\ contains(scheduled_events, events[ev_i])
    /\ ev_i' = ev_i + 1
    /\ UNCHANGED <<pc, events, scheduled_runs, scheduled_events, cur_run, runs, arg_events>>
    /\ UNCHANGED analyze_vars
    /\ UNCHANGED fn_vars

\* lines 131-138: the first free register of the expansion gets the event
Place ==
    /\ pc = "for"
    /\ ev_i <= Len(events)
    /\ ~contains(scheduled_events, events[ev_i])
    /\ LET event_tpl == events[ev_i]
           opts == register_options(event_tpl.registers)
           s    == current_run_dict
           free == free_positions(opts, s)
       IN  /\ free # {}
           /\ LET k == CHOOSE j \in free : \A l \in free : j <= l
                  possible_reg == opts.regs[k]
              IN  /\ scheduled_runs' = dict_set(scheduled_runs, cur_run,
                                                dict_set(s, possible_reg, run_entry(event_tpl, possible_reg)))
                  /\ scheduled_events' = Append(scheduled_events, event_tpl)
    /\ ev_i' = ev_i + 1
    /\ UNCHANGED <<pc, events, cur_run, runs, arg_events>>
    /\ UNCHANGED analyze_vars
    /\ UNCHANGED fn_vars

\* lines 131-134: the generator is exhausted and no register was free
\* (or it yielded nothing at all); setdefault has run if it yielded anything
NoFreeRegister ==
    /\ pc = "for"
    /\ ev_i <= Len(events)
    /\ ~contains(scheduled_events, events[ev_i])
    /\ LET opts == register_options(events[ev_i].registers)
           s    == current_run_dict
       IN  /\ free_positions(opts, s) = {}
           /\ ~opts.fail
           /\ scheduled_runs' = IF opts.regs # <<>> THEN dict_set(scheduled_runs, cur_run, s)
                                ELSE scheduled_runs
    /\ ev_i' = ev_i + 1
    /\ UNCHANGED <<pc, events, scheduled_events, cur_run, runs, arg_events>>
    /\ UNCHANGED analyze_vars
    /\ UNCHANGED fn_vars

\* line 131: no register was free and the generator raises AttributeError
\* (line 70, m is None), which leaves build_minimal_runs
RaiseAttributeError ==
    /\ pc = "for"
    /\ ev_i <= Len(events)
    /\ ~contains(scheduled_events, events[ev_i])
    /\ LET opts == register_options(events[ev_i].registers)
           s    == current_run_dict
       IN  /\ free_positions(opts, s) = {}
           /\ opts.fail
           /\ scheduled_runs' = IF opts.regs # <<>> THEN dict_set(scheduled_runs, cur_run, s)
                                ELSE scheduled_runs
    /\ pc' = "raised"
    /\ UNCHANGED <<events, scheduled_events, cur_run, ev_i, runs, arg_events>>
    /\ UNCHANGED analyze_vars
    /\ UNCHANGED fn_vars

\* mutant: the run index advances by two after a sweep
EndSweep_by_two ==
    /\ pc = "for"
    /\ ev_i > Len(events)
    /\ cur_run' = cur_run + 2
    /\ pc' = "while"
    /\ UNCHANGED <<events, scheduled_runs, scheduled_events, ev_i, runs, arg_events>>
    /\ UNCHANGED analyze_vars
    /\ UNCHANGED fn_vars

\* line 139: the sweep is over
EndSweep ==
    /\ pc = "for"
    /\ ev_i > Len(events)
    /\ cur_run' = cur_run + 1
    /\ pc' = "while"
    /\ UNCHANGED <<events, scheduled_runs, scheduled_events, ev_i, runs, arg_events>>
    /\ UNCHANGED analyze_vars
    /\ UNCHANGED fn_vars

\* line 124, condition false, and lines 141-144
Return ==
    /\ pc = "while"
    /\ Len(scheduled_events) = Len(events)
    /\ runs' = collapse(scheduled_runs)
    /\ pc' = "returned"
    /\ UNCHANGED <<events, scheduled_runs, scheduled_events, cur_run, ev_i, arg_events>>
    /\ UNCHANGED analyze_vars
    /\ UNCHANGED fn_vars

\* Benchmark.results before analyze has published anything
results_none == [none |-> TRUE]

\* a time: num / den milliseconds
Time(n, d) == [num |-> n, den |-> d]

\* no function is called on its own
FnIdle ==
    /\ fn_pc = "idle"
    /\ fn_arg = <<>>
    /\ fn_result = <<>>
    /\ fn_i = 0

\* analyze is not running: build_minimal_runs is called on its own
AnalyzeIdle ==
    /\ apc = "idle"
    /\ runtime = 0
    /\ time_per_repetition = Time(0, 1)
    /\ repetitions = 0
    /\ no_phenoecm = FALSE
    /\ event_counters = <<>>
    /\ minimal_runs = <<>>
    /\ run_i = 0
    /\ measured_ctrs = <<>>
    /\ event_counter_results = <<>>
    /\ total_iterations = 0
    /\ results = results_none
    /\ executor = [mode |-> "none", num |-> 0, den |-> 1]
    /\ calls = <<>>
    /\ raw_results = <<>>

\* build_minimal_runs called on any list of events of the universe
Init ==
    /\ pc = "call"
    /\ arg_events \in SeqsUpTo(EventUniverse, MaxEvents)
    /\ events = arg_events
    /\ scheduled_runs = <<>>
    /\ scheduled_events = <<>>
    /\ cur_run = 0
    /\ ev_i = 0
    /\ runs = <<>>
    /\ AnalyzeIdle
    /\ FnIdle

Next ==
    \/ Dedup
    \/ EnterSweep
    \/ SkipScheduled
    \/ Place
    \/ NoFreeRegister
    \/ RaiseAttributeError
    \/ EndSweep
    \/ Return

Spec == Init /\ [][Next]_vars

\* build_minimal_runs called on n distinct events that carry one descriptor
InitUniform ==
    /\ pc = "call"
    /\ \E n \in 0..MaxUniform, d \in UniformDescriptors :
          \E ps \in [1..n -> {no_parameters, Threshold}] :
             arg_events = [i \in 1..n |-> Event(UniformNames[i], d, ps[i])]
    /\ events = arg_events
    /\ scheduled_runs = <<>>
    /\ scheduled_events = <<>>
    /\ cur_run = 0
    /\ ev_i = 0
    /\ runs = <<>>
    /\ AnalyzeIdle
    /\ FnIdle

SpecUniform == InitUniform /\ [][Next]_vars

\* ------------------------------------------------------------------------
\* Benchmark.analyze: the calibration loop
\* ------------------------------------------------------------------------
\* the reliability threshold 0.15 s, in milliseconds
threshold == 150

\* the interpolation target 0.2 s, in milliseconds
target == 200

\* 10 ** k
RECURSIVE pow10(_)
pow10(k) == IF k = 0 THEN 1 ELSE 10 * pow10(k - 1)

\* str(n) of a non-negative int: its decimal digits
RECURSIVE int_str(_)
int_str(n) ==
    IF n < 10 THEN <<ordered_chars[53 + n]>>
    ELSE int_str(n \div 10) \o <<ordered_chars[53 + (n % 10)]>>

\* the benchmark's reading of its repetitions argument (decimal digits)
RECURSIVE str_int(_)
str_int(str) ==
    IF str = <<>> THEN 0
    ELSE 10 * str_int(SubSeq(str, 1, Len(str) - 1)) + (index(ordered_chars, str[Len(str)]) - 53)

\* how the benchmark behaves: a fixed time per repetition (num / den
\* milliseconds), or any runtime at every invocation
Executors ==
    {[mode |-> "arbitrary", num |-> 0, den |-> 1]} \cup
    {[mode |-> "proportional", num |-> c[1], den |-> c[2]] :
        c \in {<<1, 100>>, <<1, 10>>, <<1, 1>>, <<3, 2>>, <<2, 1>>}}

\* the runtimes an arbitrary benchmark reports, in milliseconds
ReportedRuntimes == {0, 20, 149, 150, 400}

\* mem_results['Runtime (RDTSC) [s]'] of a probe with reps repetitions
probe_runtimes(reps) ==
    IF executor.mode = "proportional" THEN {(reps * executor.num) \div executor.den}
    ELSE ReportedRuntimes

\* mutant: the loop stops at 0.10 s
calibration_continues_early(rt) == rt < 100

\* "while runtime < 0.15"
calibration_continues(rt) == rt < threshold

\* mutant: the count grows by 10
next_repetitions_plus(reps) == reps + 10

\* "repetitions *= 10"
next_repetitions(reps) == reps * 10

\* mutant: the scheduled runs get ten times the calibrated count
perfctr_args_scaled(kind) ==
    int_str(IF kind = "run" THEN repetitions * 10 ELSE repetitions)

\* the last element of "args + [str(repetitions)]"
perfctr_args(kind) == int_str(repetitions)

\* one perfctr invocation and what came of it
Call(kind, group, outcome, rt) ==
    [kind |-> kind, group |-> group, repetitions |-> perfctr_args(kind),
     outcome |-> outcome, runtime |-> rt]

\* lines 277-282: the loop condition holds and time_per_repetition is not
\* zero, the count is multiplied
CalibrateMultiply ==
    /\ apc = "calibrate"
    /\ calibration_continues(runtime)
    /\ time_per_repetition.num # 0
    /\ repetitions < pow10(MaxProbes + 1)
    /\ repetitions' = next_repetitions(repetitions)
    /\ apc' = "probe"
    /\ UNCHANGED <<runtime, time_per_repetition, no_phenoecm, event_counters, minimal_runs,
                   run_i, measured_ctrs, event_counter_results, total_iterations, results,
                   executor, calls>>
    /\ UNCHANGED bmr_vars
    /\ UNCHANGED raw_results
    /\ UNCHANGED fn_vars

\* lines 277-280: the loop condition holds and time_per_repetition is zero,
\* "0.2 // time_per_repetition" raises ZeroDivisionError
CalibrateZeroDivision ==
    /\ apc = "calibrate"
    /\ calibration_continues(runtime)
    /\ time_per_repetition.num = 0
    /\ apc' = "zero_division"
    /\ UNCHANGED <<runtime, time_per_repetition, repetitions, no_phenoecm, event_counters,
                   minimal_runs, run_i, measured_ctrs, event_counter_results,
                   total_iterations, results, executor, calls>>
    /\ UNCHANGED bmr_vars
    /\ UNCHANGED raw_results
    /\ UNCHANGED fn_vars

\* lines 284-286: the probe returns and reports a runtime
ProbeReturn ==
    /\ apc = "probe"
    /\ \E rt \in probe_runtimes(repetitions) :
          /\ runtime' = rt
          /\ time_per_repetition' = Time(rt, repetitions)
          /\ calls' = Append(calls, Call("probe", <<>>, "ok", rt))
    /\ apc' = "calibrate"
    /\ UNCHANGED <<repetitions, no_phenoecm, event_counters, minimal_runs, run_i,
                   measured_ctrs, event_counter_results, total_iterations, results, executor>>
    /\ UNCHANGED bmr_vars
    /\ UNCHANGED raw_results
    /\ UNCHANGED fn_vars

\* lines 284, 215-218 and 234-238: the tool is missing or exits with a
\* nonzero status, perfctr calls sys.exit(1)
ProbeExit ==
    /\ apc = "probe"
    /\ executor.mode = "arbitrary"
    /\ calls' = Append(calls, Call("probe", <<>>, "exit", 0))
    /\ apc' = "exit"
    /\ UNCHANGED <<runtime, time_per_repetition, repetitions, no_phenoecm, event_counters,
                   minimal_runs, run_i, measured_ctrs, event_counter_results,
                   total_iterations, results, executor>>
    /\ UNCHANGED bmr_vars
    /\ UNCHANGED raw_results
    /\ UNCHANGED fn_vars

\* lines 284 and 235: the tool was found but cannot be started,
\* subprocess.check_output raises OSError, which perfctr does not catch
ProbeOSError ==
    /\ apc = "probe"
    /\ executor.mode = "arbitrary"
    /\ calls' = Append(calls, Call("probe", <<>>, "os_error", 0))
    /\ apc' = "os_error"
    /\ UNCHANGED <<runtime, time_per_repetition, repetitions, no_phenoecm, event_counters,
                   minimal_runs, run_i, measured_ctrs, event_counter_results,
                   total_iterations, results, executor>>
    /\ UNCHANGED bmr_vars
    /\ UNCHANGED raw_results
    /\ UNCHANGED fn_vars

\* lines 284-285: the tool's output has no runtime line, the lookup raises
\* KeyError
ProbeKeyError ==
    /\ apc = "probe"
    /\ executor.mode = "arbitrary"
    /\ calls' = Append(calls, Call("probe", <<>>, "no runtime", 0))
    /\ apc' = "key_error"
    /\ UNCHANGED <<runtime, time_per_repetition, repetitions, no_phenoecm, event_counters,
                   minimal_runs, run_i, measured_ctrs, event_counter_results,
                   total_iterations, results, executor>>
    /\ UNCHANGED bmr_vars
    /\ UNCHANGED raw_results
    /\ UNCHANGED fn_vars

\* lines 284-286: the dict the last probe returned; the analysis reads its
\* runtime only
mem_results == <<[key |-> "Runtime (RDTSC) [s]", val |-> runtime]>>

\* lines 277 and 287: the loop condition fails, the last probe's dict opens
\* raw_results
CalibrateDone ==
    /\ apc = "calibrate"
    /\ ~calibration_continues(runtime)
    /\ raw_results' = <<mem_results>>
    /\ apc' = "gather"
    /\ UNCHANGED <<runtime, time_per_repetition, repetitions, no_phenoecm, event_counters,
                   minimal_runs, run_i, measured_ctrs, event_counter_results,
                   total_iterations, results, executor, calls>>
    /\ UNCHANGED bmr_vars
    /\ UNCHANGED fn_vars


\* ------------------------------------------------------------------------
\* Benchmark.analyze: the scheduled runs and the results
\* ------------------------------------------------------------------------
\* kernel.iteration_length()
iteration_length == 4

\* the value the tool reports for the counter at position k of run number i
counter_value(i, k) == 100 * i + k

\* the dict perfctr returns for a run when the tool prints a counter line
\* for the triples at the positions in reported (lines 252-257)
RECURSIVE perfctr_result(_, _, _, _)
perfctr_result(run, i, reported, k) ==
    IF k > Len(run) THEN <<>>
    ELSE LET rest == perfctr_result(run, i, reported, k + 1)
             inner == IF has_key(rest, run[k].event) THEN dict_get(rest, run[k].event) ELSE <<>>
         IN  IF k \in reported
             THEN dict_set(rest, run[k].event, dict_set(inner, run[k].register, counter_value(i, k)))
             ELSE rest

\* dict.update(other)
RECURSIVE dict_update(_, _)
dict_update(d, other) ==
    IF other = <<>> THEN d
    ELSE dict_update(dict_set(d, Head(other).key, Head(other).val), Tail(other))

\* the sets of counter lines the tool may print for a run: all, none, or
\* all but the first
ReportedSets(run) == {1..Len(run), {}, 2..Len(run)}

\* lines 317-319 for one symbol: every register of the expansion that is
\* present under the event overwrites the symbol's value
RECURSIVE resolve_symbol(_, _, _, _, _)
resolve_symbol(acc, sym, event, regs, k) ==
    IF k > Len(regs) THEN acc
    ELSE resolve_symbol(IF has_key(dict_get(measured_ctrs, event), regs[k])
                        THEN dict_set(acc, sym, dict_get(dict_get(measured_ctrs, event), regs[k]))
                        ELSE acc,
                        sym, event, regs, k + 1)

\* lines 314-319 from symbol number i on: the resulting bindings, or the
\* exception that ends the loop (KeyError of measured_ctrs[event] at the
\* first register tried, AttributeError of the generator at its end)
RECURSIVE resolve_from(_, _)
resolve_from(acc, i) ==
    IF i > Len(event_counters) THEN [status |-> "ok", bindings |-> acc]
    ELSE LET sym  == event_counters[i].key
             ctr  == event_counters[i].val
             opts == register_options(ctr.registers)
         IN  IF opts.regs # <<>> /\ ~has_key(measured_ctrs, ctr.event)
             THEN [status |-> "key_error", bindings |-> acc]
             ELSE LET acc2 == resolve_symbol(acc, sym, ctr.event, opts.regs, 1)
                  IN  IF opts.fail THEN [status |-> "attribute_error", bindings |-> acc2]
                      ELSE resolve_from(acc2, i + 1)

\* line 290, no_phenoecm set, and lines 367-369
SkipPhenoECM ==
    /\ apc = "gather"
    /\ no_phenoecm
    /\ event_counters' = <<>>
    /\ apc' = "publish"
    /\ UNCHANGED <<runtime, time_per_repetition, repetitions, no_phenoecm, minimal_runs,
                   run_i, measured_ctrs, event_counter_results, total_iterations, results,
                   executor, calls>>
    /\ UNCHANGED bmr_vars
    /\ UNCHANGED raw_results
    /\ UNCHANGED fn_vars

\* lines 290-306: build_minimal_runs is called on the events of all metrics
CallBuildMinimalRuns ==
    /\ apc = "gather"
    /\ ~no_phenoecm
    /\ pc = "idle"
    /\ arg_events' = dict_values(event_counters)
    /\ events' = dict_values(event_counters)
    /\ pc' = "call"
    /\ apc' = "scheduling"
    /\ UNCHANGED <<scheduled_runs, scheduled_events, cur_run, ev_i, runs>>
    /\ UNCHANGED <<runtime, time_per_repetition, repetitions, no_phenoecm, event_counters,
                   minimal_runs, run_i, measured_ctrs, event_counter_results,
                   total_iterations, results, executor, calls, raw_results>>
    /\ UNCHANGED fn_vars

\* mutant: the loop over the runs starts at the second run
TakeRuns_from_second ==
    /\ apc = "scheduling"
    /\ pc = "returned"
    /\ minimal_runs' = runs
    /\ measured_ctrs' = <<>>
    /\ run_i' = 2
    /\ apc' = "runs"
    /\ UNCHANGED <<runtime, time_per_repetition, repetitions, no_phenoecm, event_counters,
                   event_counter_results, total_iterations, results, executor, calls>>
    /\ UNCHANGED bmr_vars
    /\ UNCHANGED raw_results
    /\ UNCHANGED fn_vars

\* lines 306-308: build_minimal_runs has returned
TakeRuns ==
    /\ apc = "scheduling"
    /\ pc = "returned"
    /\ minimal_runs' = runs
    /\ measured_ctrs' = <<>>
    /\ run_i' = 1
    /\ apc' = "runs"
    /\ UNCHANGED <<runtime, time_per_repetition, repetitions, no_phenoecm, event_counters,
                   event_counter_results, total_iterations, results, executor, calls>>
    /\ UNCHANGED bmr_vars
    /\ UNCHANGED raw_results
    /\ UNCHANGED fn_vars

\* line 306: the AttributeError of build_minimal_runs leaves analyze
SchedulerRaised ==
    /\ apc = "scheduling"
    /\ pc = "raised"
    /\ apc' = "attribute_error"
    /\ UNCHANGED <<runtime, time_per_repetition, repetitions, no_phenoecm, event_counters,
                   minimal_runs, run_i, measured_ctrs, event_counter_results,
                   total_iterations, results, executor, calls>>
    /\ UNCHANGED bmr_vars
    /\ UNCHANGED raw_results
    /\ UNCHANGED fn_vars

\* the run holds a triple whose register is None
has_none_register(run) == \E k \in 1..Len(run) : run[k].register = None

\* lines 309 and 112: eventstr joins the event name with None, str.join
\* raises TypeError
RunEventstrTypeError ==
    /\ apc = "runs"
    /\ run_i <= Len(minimal_runs)
    /\ has_none_register(minimal_runs[run_i])
    /\ apc' = "type_error"
    /\ UNCHANGED <<runtime, time_per_repetition, repetitions, no_phenoecm, event_counters,
                   minimal_runs, run_i, measured_ctrs, event_counter_results,
                   total_iterations, results, executor, calls>>
    /\ UNCHANGED bmr_vars
    /\ UNCHANGED raw_results
    /\ UNCHANGED fn_vars

\* lines 308-312: one scheduled run is measured and its counters are merged
RunPerfctr ==
    /\ apc = "runs"
    /\ run_i <= Len(minimal_runs)
    /\ ~has_none_register(minimal_runs[run_i])
    /\ \E reported \in ReportedSets(minimal_runs[run_i]) :
          LET r == perfctr_result(minimal_runs[run_i], run_i, reported, 1)
          IN  /\ raw_results' = Append(raw_results, r)
              /\ measured_ctrs' = dict_update(measured_ctrs, r)
    /\ calls' = Append(calls, Call("run", minimal_runs[run_i], "ok", 0))
    /\ run_i' = run_i + 1
    /\ UNCHANGED <<apc, runtime, time_per_repetition, repetitions, no_phenoecm,
                   event_counters, minimal_runs, event_counter_results, total_iterations,
                   results, executor>>
    /\ UNCHANGED bmr_vars
    /\ UNCHANGED fn_vars

\* mutant: the failure of a run is swallowed and the loop goes on
RunExit_swallowed ==
    /\ apc = "runs"
    /\ run_i <= Len(minimal_runs)
    /\ ~has_none_register(minimal_runs[run_i])
    /\ calls' = Append(calls, Call("run", minimal_runs[run_i], "exit", 0))
    /\ run_i' = run_i + 1
    /\ UNCHANGED <<apc, runtime, time_per_repetition, repetitions, no_phenoecm,
                   event_counters, minimal_runs, measured_ctrs, event_counter_results,
                   total_iterations, results, executor>>
    /\ UNCHANGED bmr_vars
    /\ UNCHANGED raw_results
    /\ UNCHANGED fn_vars

\* lines 310, 215-218 and 234-238: the tool is missing or exits with a
\* nonzero status, perfctr calls sys.exit(1)
RunExit ==
    /\ apc = "runs"
    /\ run_i <= Len(minimal_runs)
    /\ ~has_none_register(minimal_runs[run_i])
    /\ calls' = Append(calls, Call("run", minimal_runs[run_i], "exit", 0))
    /\ apc' = "exit"
    /\ UNCHANGED <<runtime, time_per_repetition, repetitions, no_phenoecm, event_counters,
                   minimal_runs, run_i, measured_ctrs, event_counter_results,
                   total_iterations, results, executor>>
    /\ UNCHANGED bmr_vars
    /\ UNCHANGED raw_results
    /\ UNCHANGED fn_vars

\* lines 310 and 235: the tool was found but cannot be started,
\* subprocess.check_output raises OSError, which perfctr does not catch
RunOSError ==
    /\ apc = "runs"
    /\ run_i <= Len(minimal_runs)
    /\ ~has_none_register(minimal_runs[run_i])
    /\ calls' = Append(calls, Call("run", minimal_runs[run_i], "os_error", 0))
    /\ apc' = "os_error"
    /\ UNCHANGED <<runtime, time_per_repetition, repetitions, no_phenoecm, event_counters,
                   minimal_runs, run_i, measured_ctrs, event_counter_results,
                   total_iterations, results, executor>>
    /\ UNCHANGED bmr_vars
    /\ UNCHANGED raw_results
    /\ UNCHANGED fn_vars

\* lines 313-319: every symbol is resolved
ResolveSymbols ==
    /\ apc = "runs"
    /\ run_i > Len(minimal_runs)
    /\ LET res == resolve_from(<<>>, 1)
       IN  /\ res.status = "ok"
           /\ event_counter_results' = res.bindings
    /\ apc' = "normalise"
    /\ UNCHANGED <<runtime, time_per_repetition, repetitions, no_phenoecm, event_counters,
                   minimal_runs, run_i, measured_ctrs, total_iterations, results, executor,
                   calls>>
    /\ UNCHANGED bmr_vars
    /\ UNCHANGED raw_results
    /\ UNCHANGED fn_vars

\* lines 313-319: a lookup or the generator raises while resolving
ResolveRaises ==
    /\ apc = "runs"
    /\ run_i > Len(minimal_runs)
    /\ LET res == resolve_from(<<>>, 1)
       IN  /\ res.status # "ok"
           /\ event_counter_results' = res.bindings
           /\ apc' = res.status
    /\ UNCHANGED <<runtime, time_per_repetition, repetitions, no_phenoecm, event_counters,
                   minimal_runs, run_i, measured_ctrs, total_iterations, results, executor,
                   calls>>
    /\ UNCHANGED bmr_vars
    /\ UNCHANGED raw_results
    /\ UNCHANGED fn_vars

\* lines 321-324: the iteration count all model terms are normalised by
Normalise ==
    /\ apc = "normalise"
    /\ total_iterations' = iteration_length * repetitions
    /\ apc' = "publish"
    /\ UNCHANGED <<runtime, time_per_repetition, repetitions, no_phenoecm, event_counters,
                   minimal_runs, run_i, measured_ctrs, event_counter_results, results,
                   executor, calls>>
    /\ UNCHANGED bmr_vars
    /\ UNCHANGED raw_results
    /\ UNCHANGED fn_vars

\* lines 371-399: the result object is published
Publish ==
    /\ apc = "publish"
    /\ results' = [runtime_per_repetition |-> time_per_repetition,
                   mem_volume_per |-> repetitions,
                   event_counters |-> event_counters]
    /\ apc' = "done"
    /\ UNCHANGED <<runtime, time_per_repetition, repetitions, no_phenoecm, event_counters,
                   minimal_runs, run_i, measured_ctrs, event_counter_results,
                   total_iterations, executor, calls>>
    /\ UNCHANGED bmr_vars
    /\ UNCHANGED raw_results
    /\ UNCHANGED fn_vars

\* symbol -> event dicts the machine description may yield
\* (machine.parse_perfmetric, lines 292-303)
EventCounterConfigs ==
    { <<>>,
      <<[key |-> "s1", val |-> Event("A", PMC01, no_parameters)],
        [key |-> "s2", val |-> Event("B", PMC01, no_parameters)],
        [key |-> "s3", val |-> Event("C", PMC01, Threshold)]>>,
      <<[key |-> "s1", val |-> Event("A", PMC01, no_parameters)],
        [key |-> "s2", val |-> Event("B", PMC0, no_parameters)]>>,
      <<[key |-> "s1", val |-> Event("A", PMC0, no_parameters)],
        [key |-> "s2", val |-> Event("A", PMC0, no_parameters)],
        [key |-> "s3", val |-> Event("A", PMC1, no_parameters)]>>,
      <<[key |-> "s1", val |-> Event("A", NoDescr, no_parameters)]>>,
      <<[key |-> "s1", val |-> Event("A", NoDescr, no_parameters)],
        [key |-> "s2", val |-> Event("B", NoDescr, no_parameters)]>>,
      <<[key |-> "s1", val |-> Event("B", PMC0, no_parameters)],
        [key |-> "s2", val |-> Event("C", PMC0bar, no_parameters)]>>,
      <<[key |-> "s1", val |-> Event("C", PMC10, no_parameters)]>>,
      <<[key |-> "s1", val |-> Event("A", PMC0, no_parameters)],
        [key |-> "s2", val |-> Event("B", PMC1, no_parameters)],
        [key |-> "s3", val |-> Event("A", PMC1or0, Threshold)]>>,
      <<[key |-> "s1", val |-> Event("A", PMC01, no_parameters)],
        [key |-> "s2", val |-> Event("A", PMC01, Threshold)]>>,
      <<[key |-> "s1", val |-> Event("A", PMC0, no_parameters)],
        [key |-> "s2", val |-> Event("B", PMC0, no_parameters)],
        [key |-> "s3", val |-> Event("C", PMC0, Threshold)]>> }

\* analyze after lines 265-275
InitAnalyze ==
    /\ apc = "calibrate"
    /\ runtime = 0
    /\ time_per_repetition = Time(target, 10)
    /\ repetitions = 10
    /\ no_phenoecm \in BOOLEAN
    /\ event_counters \in EventCounterConfigs
    /\ minimal_runs = <<>>
    /\ run_i = 0
    /\ measured_ctrs = <<>>
    /\ event_counter_results = <<>>
    /\ total_iterations = 0
    /\ results = results_none
    /\ executor \in Executors
    /\ calls = <<>>
    /\ raw_results = <<>>
    /\ FnIdle
    /\ pc = "idle"
    /\ arg_events = <<>>
    /\ events = <<>>
    /\ scheduled_runs = <<>>
    /\ scheduled_events = <<>>
    /\ cur_run = 0
    /\ ev_i = 0
    /\ runs = <<>>

NextAnalyze ==
    \/ CalibrateMultiply
    \/ CalibrateZeroDivision
    \/ ProbeReturn
    \/ ProbeExit
    \/ ProbeOSError
    \/ ProbeKeyError
    \/ CalibrateDone
    \/ SkipPhenoECM
    \/ CallBuildMinimalRuns
    \/ Dedup
    \/ EnterSweep
    \/ SkipScheduled
    \/ Place
    \/ NoFreeRegister
    \/ RaiseAttributeError
    \/ EndSweep
    \/ Return
    \/ TakeRuns
    \/ SchedulerRaised
    \/ RunEventstrTypeError
    \/ RunPerfctr
    \/ RunExit
    \/ RunOSError
    \/ ResolveSymbols
    \/ ResolveRaises
    \/ Normalise
    \/ Publish

SpecAnalyze == InitAnalyze /\ [][NextAnalyze]_vars

\* the calibration loop is sequential code: an iteration that can start
\* starts, a probe that can return returns, a loop that can be left is left
SpecAnalyzeFair ==
    /\ SpecAnalyze
    /\ WF_vars(CalibrateMultiply)
    /\ WF_vars(ProbeReturn)
    /\ WF_vars(CalibrateDone)

\* ------------------------------------------------------------------------
\* list(register_options(regdescr)) called on its own
\* ------------------------------------------------------------------------
\* the characters the descriptors of InitExpand are made of
DescrChars == {"P", "0", "1", "[", "]", "-", "|"}

CBOX03C01  == <<"C","B","O","X","[","0","-","3","]","C","[","0","1","]">>
PMC01or23  == <<"P","M","C","[","0","-","1","]","|","P","M","C","[","2","3","]">>
Grp0BA1    == <<"[","0","B","-","A","1","]">>
Grp79ab    == <<"[","7","-","9","a","b","]">>
GrpYb      == <<"[","Y","-","b","]">>

\* descriptors longer than MaxDescrLen that InitExpand adds
DescriptorExamples ==
    {PMC01, PMC0grp, PMC10, PMC0bar, PMC1or0, PMC02, CBOX03C01, PMC01or23,
     Grp0BA1, Grp79ab, GrpYb}

\* the generator object exists, nothing has been consumed yet
InitExpand ==
    /\ fn_pc = "expand"
    /\ fn_arg \in SeqsUpTo(DescrChars, MaxDescrLen) \cup DescriptorExamples
    /\ fn_result = <<>>
    /\ fn_i = 0
    /\ pc = "idle"
    /\ arg_events = <<>>
    /\ events = <<>>
    /\ scheduled_runs = <<>>
    /\ scheduled_events = <<>>
    /\ cur_run = 0
    /\ ev_i = 0
    /\ runs = <<>>
    /\ AnalyzeIdle

\* lines 63-80: the generator yields its next value, list() appends it
ExpandYield ==
    /\ fn_pc = "expand"
    /\ fn_i < Len(register_options(fn_arg).regs)
    /\ fn_result' = Append(fn_result, register_options(fn_arg).regs[fn_i + 1])
    /\ fn_i' = fn_i + 1
    /\ UNCHANGED <<fn_pc, fn_arg>>
    /\ UNCHANGED bmr_vars
    /\ UNCHANGED analyze_vars

\* line 66: the loop over the alternatives ends, the generator is exhausted
ExpandStop ==
    /\ fn_pc = "expand"
    /\ fn_i = Len(register_options(fn_arg).regs)
    /\ ~register_options(fn_arg).fail
    /\ fn_pc' = "stopped"
    /\ UNCHANGED <<fn_arg, fn_result, fn_i>>
    /\ UNCHANGED bmr_vars
    /\ UNCHANGED analyze_vars

\* lines 67-69: re.match returned None for an empty alternative and
\* m.group('grp') raises AttributeError out of the generator
ExpandRaise ==
    /\ fn_pc = "expand"
    /\ fn_i = Len(register_options(fn_arg).regs)
    /\ register_options(fn_arg).fail
    /\ fn_pc' = "raised"
    /\ UNCHANGED <<fn_arg, fn_result, fn_i>>
    /\ UNCHANGED bmr_vars
    /\ UNCHANGED analyze_vars

NextExpand ==
    \/ ExpandYield
    \/ ExpandStop
    \/ ExpandRaise

SpecExpand == InitExpand /\ [][NextExpand]_vars

\* ------------------------------------------------------------------------
\* Benchmark.perfctr: the loop over the lines of the tool's output
\* ------------------------------------------------------------------------
\* the characters 0-9 and A-Z
digit_chars == SubSeq(ordered_chars, 53, 62)
upper_chars == SubSeq(ordered_chars, 27, 52)

\* a string of one or more decimal digits
is_digits(str) == str # <<>> /\ \A i \in 1..Len(str) : contains(digit_chars, str[i])

\* the string without a leading sign
unsigned(str) == IF str # <<>> /\ str[1] \in {"+", "-"} THEN Tail(str) ELSE str

\* the string without its decimal points
RECURSIVE without_points(_)
without_points(str) ==
    IF str = <<>> THEN <<>>
    ELSE (IF Head(str) = "." THEN <<>> ELSE <<Head(str)>>) \o without_points(Tail(str))

\* float(str) does not raise ValueError: an optional sign, then decimal
\* digits with at most one decimal point among them (exponents, inf, nan,
\* blanks and underscores do not occur in the lines of LineUniverse)
float_parses(str) ==
    LET body == unsigned(str)
    IN  /\ is_digits(without_points(body))
        /\ Len(body) - Len(without_points(body)) <= 1

\* float(str) as the fraction num / den
float(str) ==
    LET body == unsigned(str)
        frac == IF contains(body, ".") THEN Len(body) - index(body, ".") ELSE 0
        mag  == str_int(without_points(body))
    IN  [type |-> "float", num |-> IF str[1] = "-" THEN 0 - mag ELSE mag, den |-> pow10(frac)]

\* int(str) does not raise ValueError: an optional sign, then decimal digits
int_parses(str) == is_digits(unsigned(str))

\* int(str)
int(str) == IF str[1] = "-" THEN 0 - str_int(unsigned(str)) ELSE str_int(unsigned(str))

\* re.fullmatch(r'[A-Z0-9_]+', str)
fullmatch_event(str) ==
    str # <<>> /\ \A i \in 1..Len(str) :
        contains(upper_chars, str[i]) \/ contains(digit_chars, str[i]) \/ str[i] = "_"

\* re.fullmatch(r'[A-Z0-9]+', str)
fullmatch_register(str) ==
    str # <<>> /\ \A i \in 1..Len(str) :
        contains(upper_chars, str[i]) \/ contains(digit_chars, str[i])

\* an inner dict of results: register -> counter value
counter_dict(items) == [type |-> "dict", items |-> items]

\* lines 243-250 for the fields of one line: results after the metric is
\* stored, and whether IndexError sends the loop to the next line
parse_metric(res, line) ==
    IF Len(line) < 2 THEN [results |-> res, next_line |-> TRUE]
    ELSE IF float_parses(line[2])
         THEN [results |-> dict_set(res, line[1], float(line[2])), next_line |-> FALSE]
         ELSE [results |-> res, next_line |-> FALSE]

\* results.setdefault(k, {}): an existing entry is kept whatever it is
setdefault(res, k) ==
    IF has_key(res, k) THEN res ELSE dict_set(res, k, counter_dict(<<>>))

\* lines 251-259 for the fields of one line: results after the counter is
\* stored, and whether the item assignment into a float raises TypeError
parse_counter(res, line) ==
    IF Len(line) < 3 \/ ~int_parses(line[3])
    THEN [results |-> res, type_error |-> FALSE]
    ELSE IF fullmatch_event(line[1]) /\ fullmatch_register(line[2])
         THEN LET r2 == setdefault(res, line[1])
              IN  IF dict_get(r2, line[1]).type = "dict"
                  THEN [results |-> dict_set(r2, line[1],
                                     counter_dict(dict_set(dict_get(r2, line[1]).items,
                                                           line[2], int(line[3])))),
                        type_error |-> FALSE]
                  ELSE [results |-> r2, type_error |-> TRUE]
         ELSE [results |-> res, type_error |-> FALSE]

\* lines 241-259: the body of the loop for one line
parse_line(res, text) ==
    LET line == split(text, ",")
        m    == parse_metric(res, line)
    IN  IF m.next_line THEN [results |-> res, type_error |-> FALSE]
        ELSE parse_counter(m.results, line)

\* the lines the outputs of InitParse are made of
LineUniverse ==
    { <<"E",",","1",",","4">>,
      <<"E",",","P","0",",","5">>,
      <<"E",",","P","1",",","7">>,
      <<"E",",","1",".","5">>,
      <<"r",",","2","0">>,
      <<"F",",","P","0",",","x">>,
      <<"F",",","p","0",",","5">>,
      <<"F","_","1",",","P","0",",","-","3",",","x">>,
      <<"x">>,
      <<>> }

\* perfctr at line 240: the tool has printed its output, results is empty
InitParse ==
    /\ fn_pc = "parse"
    /\ fn_arg \in SeqsUpTo(LineUniverse, MaxLines)
    /\ fn_result = <<>>
    /\ fn_i = 1
    /\ pc = "idle"
    /\ arg_events = <<>>
    /\ events = <<>>
    /\ scheduled_runs = <<>>
    /\ scheduled_events = <<>>
    /\ cur_run = 0
    /\ ev_i = 0
    /\ runs = <<>>
    /\ AnalyzeIdle

\* lines 241-259: one line is parsed and the loop goes to the next line
ParseLine ==
    /\ fn_pc = "parse"
    /\ fn_i <= Len(fn_arg)
    /\ ~parse_line(fn_result, fn_arg[fn_i]).type_error
    /\ fn_result' = parse_line(fn_result, fn_arg[fn_i]).results
    /\ fn_i' = fn_i + 1
    /\ UNCHANGED <<fn_pc, fn_arg>>
    /\ UNCHANGED bmr_vars
    /\ UNCHANGED analyze_vars

\* line 257: results[line[0]] is a float, the item assignment raises
\* TypeError, which the except clause of line 258 does not catch
ParseTypeError ==
    /\ fn_pc = "parse"
    /\ fn_i <= Len(fn_arg)
    /\ parse_line(fn_result, fn_arg[fn_i]).type_error
    /\ fn_result' = parse_line(fn_result, fn_arg[fn_i]).results
    /\ fn_pc' = "type_error"
    /\ UNCHANGED <<fn_arg, fn_i>>
    /\ UNCHANGED bmr_vars
    /\ UNCHANGED analyze_vars

\* line 261: every line has been parsed
ParseReturn ==
    /\ fn_pc = "parse"
    /\ fn_i > Len(fn_arg)
    /\ fn_pc' = "returned"
    /\ UNCHANGED <<fn_arg, fn_result, fn_i>>
    /\ UNCHANGED bmr_vars
    /\ UNCHANGED analyze_vars

NextParse ==
    \/ ParseLine
    \/ ParseTypeError
    \/ ParseReturn

SpecParse == InitParse /\ [][NextParse]_vars

\* ------------------------------------------------------------------------
\* eventstr called on its own
\* ------------------------------------------------------------------------
\* the characters of the names, in code point order (str comparison)
code_point_order ==
    digit_chars \o upper_chars \o <<"_">> \o SubSeq(ordered_chars, 1, 26)

\* a < b for two strings
RECURSIVE str_less(_, _)
str_less(a, b) ==
    IF b = <<>> THEN FALSE
    ELSE IF a = <<>> THEN TRUE
    ELSE IF Head(a) = Head(b) THEN str_less(Tail(a), Tail(b))
    ELSE index(code_point_order, Head(a)) < index(code_point_order, Head(b))

\* sorted(d.items()) of a dict with string keys
RECURSIVE sorted_items(_)
sorted_items(items) ==
    IF items = <<>> THEN <<>>
    ELSE LET m == CHOOSE i \in 1..Len(items) :
                      \A j \in 1..Len(items) : j = i \/ str_less(items[i].key, items[j].key)
         IN  <<items[m]>> \o sorted_items([k \in 1..(Len(items) - 1) |->
                                               IF k < m THEN items[k] ELSE items[k + 1]])

hex_digits == <<"0","1","2","3","4","5","6","7","8","9","a","b","c","d","e","f">>

\* the hexadecimal digits of n >= 0
RECURSIVE hex_magnitude(_)
hex_magnitude(n) ==
    IF n < 16 THEN <<hex_digits[n + 1]>>
    ELSE hex_magnitude(n \div 16) \o <<hex_digits[(n % 16) + 1]>>

\* hex(v)
hex(v) == IF v < 0 THEN <<"-","0","x">> \o hex_magnitude(0 - v) ELSE <<"0","x">> \o hex_magnitude(v)

\* a dict is given and is not empty ("if parameters:")
is_truthy(parameters) == "items" \in DOMAIN parameters /\ parameters.items # <<>>

\* lines 107-111: the items of the dict, sorted, an int value appended to
\* its key as "=" and hex(v)
RECURSIVE parameter_strings(_)
parameter_strings(items) ==
    IF items = <<>> THEN <<>>
    ELSE <<IF "int" \in DOMAIN Head(items).val
           THEN Head(items).key \o <<"=">> \o hex(Head(items).val.int)
           ELSE Head(items).key>> \o parameter_strings(Tail(items))

\* ":".join(strs) for strings none of which is None
RECURSIVE join(_)
join(strs) ==
    IF Len(strs) = 1 THEN strs[1]
    ELSE strs[1] \o <<":">> \o join(Tail(strs))

\* eventstr(event_tuple, event, register, parameters): the string it
\* returns or the exception it raises
eventstr(args) ==
    IF ~args.event_tuple.given
    THEN [status |-> "type_error", value |-> <<>>]
    ELSE LET t    == args.event_tuple.items
             ev   == IF Len(t) \in {2, 3} THEN t[1] ELSE args.event
             reg  == IF Len(t) \in {2, 3} THEN t[2] ELSE args.register
             par  == IF Len(t) = 3 THEN t[3] ELSE args.parameters
         IN  IF is_truthy(par) /\ Len(t) < 3
             THEN [status |-> "index_error", value |-> <<>>]
             ELSE IF ev = None \/ reg = None
             THEN [status |-> "type_error", value |-> <<>>]
             ELSE [status |-> "returned",
                   value  |-> join(<<ev, reg>> \o
                                   (IF is_truthy(par)
                                    THEN parameter_strings(sorted_items(t[3].items))
                                    ELSE <<>>))]

\* an event_tuple argument: left out, or the tuple given
no_event_tuple == [given |-> FALSE]
event_tuple(items) == [given |-> TRUE, items |-> items]

L1D  == <<"L","1","D">>
DTLB == <<"D","T","L","B","_","W">>
PMC3 == <<"P","M","C","3">>
THRESHOLD  == <<"T","H","R","E","S","H","O","L","D">>
EDGEDETECT == <<"E","D","G","E","D","E","T","E","C","T">>

\* the parameters eventstr is called with: None, {}, {'THRESHOLD': 2342}
\* and {'THRESHOLD': 2342, 'EDGEDETECT': None}
EventstrParameters ==
    { no_parameters,
      [items |-> <<>>],
      [items |-> <<[key |-> THRESHOLD, val |-> [int |-> 2342]]>>],
      [items |-> <<[key |-> THRESHOLD, val |-> [int |-> 2342]],
                   [key |-> EDGEDETECT, val |-> [none |-> TRUE]]>>] }

EventstrEvents == {L1D, DTLB}
EventstrRegisters == {PMC0, PMC3, None}

\* the event_tuple arguments eventstr is called with
EventstrTuples ==
    {no_event_tuple}
    \cup {event_tuple(<<e, r>>) : e \in EventstrEvents, r \in EventstrRegisters}
    \cup {event_tuple(<<e, r, p>>) :
              e \in EventstrEvents, r \in EventstrRegisters, p \in EventstrParameters}

\* eventstr has been called
InitEventstr ==
    /\ fn_pc = "eventstr"
    /\ \E t \in EventstrTuples, e \in EventstrEvents \cup {None},
          r \in EventstrRegisters, p \in EventstrParameters :
          fn_arg = [event_tuple |-> t, event |-> e, register |-> r, parameters |-> p]
    /\ fn_result = <<>>
    /\ fn_i = 0
    /\ pc = "idle"
    /\ arg_events = <<>>
    /\ events = <<>>
    /\ scheduled_runs = <<>>
    /\ scheduled_events = <<>>
    /\ cur_run = 0
    /\ ev_i = 0
    /\ runs = <<>>
    /\ AnalyzeIdle

\* line 112: the joined string is returned
EventstrReturn ==
    /\ fn_pc = "eventstr"
    /\ eventstr(fn_arg).status = "returned"
    /\ fn_result' = eventstr(fn_arg).value
    /\ fn_pc' = "returned"
    /\ UNCHANGED <<fn_arg, fn_i>>
    /\ UNCHANGED bmr_vars
    /\ UNCHANGED analyze_vars

\* lines 101, 108 and 112: len(None) or str.join on None raises TypeError,
\* event_tuple[2] of a pair raises IndexError
EventstrRaises ==
    /\ fn_pc = "eventstr"
    /\ eventstr(fn_arg).status # "returned"
    /\ fn_pc' = eventstr(fn_arg).status
    /\ UNCHANGED <<fn_arg, fn_result, fn_i>>
    /\ UNCHANGED bmr_vars
    /\ UNCHANGED analyze_vars

NextEventstr ==
    \/ EventstrReturn
    \/ EventstrRaises

SpecEventstr == InitEventstr /\ [][NextEventstr]_vars

\* ------------------------------------------------------------------------
\* Properties of build_minimal_runs
\* ------------------------------------------------------------------------
\* the returned triples, run after run
RECURSIVE flatten(_)
flatten(rs) == IF rs = <<>> THEN <<>> ELSE Head(rs) \o flatten(Tail(rs))

\* the distinct events of the caller's list
InputEvents == {arg_events[i] : i \in 1..Len(arg_events)}

\* the concrete registers an event's descriptor offers
Candidates(e) == LET opts == register_options(e.registers)
                 IN  {opts.regs[k] : k \in 1..Len(opts.regs)}

\* a returned triple is a placement of event e
IsPlacementOf(t, e) ==
    /\ t.event = e.event
    /\ t.parameters = e.parameters
    /\ t.register \in Candidates(e)

\* C1: in every returned run the register names are pairwise distinct.
C1_DistinctRegisters ==
    pc = "returned" =>
        \A r \in 1..Len(runs) : \A i, j \in 1..Len(runs[r]) :
            i # j => runs[r][i].register # runs[r][j].register

\* a call that returned two runs, the first of them measuring two events
C1_Witness ==
    /\ pc = "returned"
    /\ Len(runs) >= 2
    /\ Len(runs[1]) >= 2

\* C2: the returned triples are, one for one, placements of the distinct
\* input events (no event missing, none twice, none invented), and the
\* de-duplicated list keeps the order of the first occurrences.
C2_EachEventOnce ==
    pc = "returned" =>
        LET flat == flatten(runs)
        IN  /\ Len(flat) = Cardinality(InputEvents)
            /\ \E f \in [InputEvents -> 1..Len(flat)] :
                  /\ \A e1, e2 \in InputEvents : e1 # e2 => f[e1] # f[e2]
                  /\ \A e \in InputEvents : IsPlacementOf(flat[f[e]], e)
            /\ {events[i] : i \in 1..Len(events)} = InputEvents
            /\ \A i, j \in 1..Len(events) :
                  i < j => index(arg_events, events[i]) < index(arg_events, events[j])

\* a call with a duplicated event that returned more than one run
C2_Witness ==
    /\ pc = "returned"
    /\ Len(arg_events) > Cardinality(InputEvents)
    /\ Cardinality(InputEvents) >= 2
    /\ Len(runs) >= 2

\* C3: build_minimal_runs terminates: a sweep that ends has scheduled an
\* event (a sweep that schedules nothing leaves scheduled_events and the
\* registers as they were, so every later sweep repeats it), and an event
\* without candidate registers ends the call in a failure.
C3_NoEndlessSweep ==
    pc = "while" => cur_run <= Len(scheduled_events)

\* can the events evs be placed on candidate registers in nruns runs, the
\* slots of used being taken
RECURSIVE CanPack(_, _, _)
CanPack(evs, nruns, used) ==
    IF evs = <<>> THEN TRUE
    ELSE \E j \in 1..nruns : \E c \in Candidates(Head(evs)) :
            /\ <<j, c>> \notin used
            /\ CanPack(Tail(evs), nruns, used \cup {<<j, c>>})

\* the fewest runs that hold all events of evs
MinRuns(evs) ==
    CHOOSE n \in 0..Len(evs) :
        /\ CanPack(evs, n, {})
        /\ \A m \in 0..(n-1) : ~CanPack(evs, m, {})

\* C4 as stated: the number of returned runs is the fewest possible.
C4_FewestRuns ==
    pc = "returned" => Len(runs) = MinRuns(events)

\* any two events offer the same registers or have no register in common
EqualOrDisjoint ==
    \A e1, e2 \in InputEvents :
        Candidates(e1) = Candidates(e2) \/ Candidates(e1) \cap Candidates(e2) = {}

\* C4 amended: the number of returned runs is never below the fewest
\* possible, and it is the fewest possible when any two events offer equal
\* or disjoint register sets.
C4_FirstFitRuns ==
    pc = "returned" =>
        /\ Len(runs) >= MinRuns(events)
        /\ EqualOrDisjoint => Len(runs) = MinRuns(events)

\* a call on events with equal-or-disjoint register sets, two different
\* sets among them, that needed two runs
C4_Witness ==
    /\ pc = "returned"
    /\ EqualOrDisjoint
    /\ \E e1, e2 \in InputEvents : Candidates(e1) # Candidates(e2)
    /\ Len(runs) >= 2

\* the caller's list holds n >= 1 distinct events that carry one descriptor,
\* whose expansion completes and offers k >= 1 registers
UniformInput(n, k) ==
    /\ n >= 1 /\ k >= 1
    /\ n = Len(arg_events)
    /\ n = Cardinality(InputEvents)
    /\ \A e \in InputEvents :
          /\ e.registers = arg_events[1].registers
          /\ ~register_options(e.registers).fail
          /\ Cardinality(Candidates(e)) = k

\* ceil(n / k)
CeilDiv(n, k) == (n + k - 1) \div k

\* C5: n distinct events on one descriptor of k registers are returned in
\* ceil(n/k) runs, all but the last holding k events; the call does not
\* raise and needs no more than ceil(n/k) sweeps.
C5_UniformRuns ==
    \A n \in 1..Len(arg_events) : \A k \in 1..Cardinality(Candidates(arg_events[1])) :
        UniformInput(n, k) =>
            /\ pc # "raised"
            /\ cur_run <= CeilDiv(n, k)
            /\ pc = "returned" =>
                  /\ Len(runs) = CeilDiv(n, k)
                  /\ \A r \in 1..(Len(runs) - 1) : Len(runs[r]) = k
                  /\ Len(runs[Len(runs)]) = n - k * (Len(runs) - 1)

\* five events on PMC[0-1] returned as runs of 2, 2 and 1 events
C5_Witness ==
    /\ pc = "returned"
    /\ UniformInput(5, 2)
    /\ arg_events[1].registers = PMC01
    /\ Len(runs) = 3
    /\ Len(runs[1]) = 2 /\ Len(runs[2]) = 2 /\ Len(runs[3]) = 1

\* ------------------------------------------------------------------------
\* Properties of the calibration loop
\* ------------------------------------------------------------------------
\* the positions of the calibration probes among the invocations
ProbeCalls == {i \in 1..Len(calls) : calls[i].kind = "probe"}

\* the positions of the scheduled runs among the invocations
RunCalls == {i \in 1..Len(calls) : calls[i].kind = "run"}

NumProbes == Cardinality(ProbeCalls)

\* the last calibration probe (there is one)
LastProbe == calls[CHOOSE i \in ProbeCalls : \A j \in ProbeCalls : j <= i]

\* the calibration loop has been left through its condition
Calibrated ==
    /\ apc \notin {"calibrate", "probe", "zero_division"}
    /\ \A i \in ProbeCalls : calls[i].outcome = "ok"

\* C6: with a runtime proportional to the repetition count the loop is left
\* through its condition, and from then on time_per_repetition times the
\* count passed to the last probe is at least 0.15 s.
C6_ProportionalCalibration ==
    /\ [](executor.mode = "proportional" => <>Calibrated)
    /\ []((executor.mode = "proportional" /\ Calibrated) =>
             time_per_repetition.num * str_int(LastProbe.repetitions)
                >= threshold * time_per_repetition.den)

\* a benchmark of 0.01 ms per repetition, calibrated after four probes
C6_Witness ==
    /\ executor.mode = "proportional"
    /\ Calibrated
    /\ NumProbes >= 4

\* C7: the calibration loop never divides by a zero time_per_repetition.
C7_NoZeroDivision == apc # "zero_division"

\* C8 as stated: the first probe runs with 10 repetitions, the next ones
\* with 100, 1000, ...
C8_FirstProbeTen ==
    \A i \in ProbeCalls : str_int(calls[i].repetitions) = pow10(i)

\* C8 amended: the count is multiplied by 10 before every probe, the first
\* one included: probe number i runs with 10^(i+1) repetitions, a further
\* probe follows only a probe that reported a nonzero runtime below 0.15 s,
\* and once the loop is left the count is that of the last probe, the first
\* one in 100, 1000, ... that reported at least 0.15 s.
C8_ProbeCounts ==
    /\ \A i \in ProbeCalls : str_int(calls[i].repetitions) = pow10(i + 1)
    /\ \A i \in ProbeCalls :
          (i < NumProbes \/ apc = "probe") =>
              /\ calls[i].outcome = "ok"
              /\ calls[i].runtime # 0
              /\ calls[i].runtime < threshold
    /\ repetitions = pow10(NumProbes + 1 + (IF apc = "probe" THEN 1 ELSE 0))
    /\ Calibrated =>
          /\ NumProbes >= 1
          /\ LastProbe.runtime >= threshold
          /\ str_int(LastProbe.repetitions) = repetitions

\* a benchmark with arbitrary runtimes, calibrated at the third probe
C8_Witness ==
    /\ executor.mode = "arbitrary"
    /\ Calibrated
    /\ NumProbes = 3
    /\ repetitions = 10000

\* C9: the number of probes is capped: after MaxProbes probes that stayed
\* below the threshold the loop is not about to probe again.
C9_ProbesCapped ==
    ~( /\ apc = "calibrate"
       /\ NumProbes >= MaxProbes
       /\ calibration_continues(runtime)
       /\ time_per_repetition.num # 0 )

\* C10: once the loop is left the repetition count does not change; every
\* scheduled run is invoked with the count of the last probe, and the same
\* count enters total_iterations and the published per-repetition volume.
C10_RepetitionsFixed ==
    /\ [](\A i \in RunCalls : calls[i].repetitions = LastProbe.repetitions)
    /\ []((apc \in {"publish", "done"} /\ ~no_phenoecm) =>
             total_iterations = iteration_length * str_int(LastProbe.repetitions))
    /\ [](apc = "done" => results.mem_volume_per = str_int(LastProbe.repetitions))
    /\ [][Calibrated => repetitions' = repetitions]_vars

\* an analysis that calibrated in two probes, measured two scheduled runs
\* and published its results
C10_Witness ==
    /\ apc = "done"
    /\ ~no_phenoecm
    /\ NumProbes >= 2
    /\ Cardinality(RunCalls) >= 2

\* the places of the returned triples: run number and position in the run
RunSlots == UNION {{<<k, i>> : i \in 1..Len(runs[k])} : k \in 1..Len(runs)}

\* register c is assigned in run number j of the output
occupied_in(j, c) == \E i \in 1..Len(runs[j]) : runs[j][i].register = c

\* the returned runs are a first-fit placement: the events can be matched
\* one for one with the returned triples so that each triple carries a
\* register of its event's own expansion and every candidate register of
\* the event is assigned in every earlier run
first_fit_output ==
    \E f \in [InputEvents -> RunSlots] :
        /\ \A e1, e2 \in InputEvents : e1 # e2 => f[e1] # f[e2]
        /\ \A e \in InputEvents :
               /\ IsPlacementOf(runs[f[e][1]][f[e][2]], e)
               /\ \A j \in 1..(f[e][1] - 1) : \A c \in Candidates(e) : occupied_in(j, c)

\* a step that schedules an event puts it, in the current run, on the
\* first register of its expansion that the run does not hold yet
first_fit_step ==
    scheduled_events' # scheduled_events =>
        LET e    == scheduled_events'[Len(scheduled_events')]
            s    == IF has_key(scheduled_runs, cur_run)
                    THEN dict_get(scheduled_runs, cur_run) ELSE <<>>
            s2   == dict_get(scheduled_runs', cur_run)
            regs == register_options(e.registers).regs
        IN  /\ scheduled_events' = Append(scheduled_events, e)
            /\ Len(s2) = Len(s) + 1
            /\ \E k \in 1..Len(regs) :
                   /\ ~has_key(s, regs[k])
                   /\ \A l \in 1..(k - 1) : has_key(s, regs[l])
                   /\ has_key(s2, regs[k])
                   /\ dict_get(s2, regs[k]) =
                          [event |-> e.event, register |-> regs[k], parameters |-> e.parameters]

\* C20: register assignment is first-fit: an event is placed on the first
\* register of its expansion order that is free in the current run at that
\* moment; so in the returned runs every candidate register of an event of
\* run k is assigned in every run before k, and every assigned register is
\* one of its event's own expansion.
C20_FirstFit == [](pc = "returned" => first_fit_output) /\ [][first_fit_step]_vars

\* a call that returned at least two runs, an event of the first run
\* sitting on a register that is not the first of its expansion
C20_Witness ==
    /\ pc = "returned"
    /\ Len(runs) >= 2
    /\ Len(runs[1]) >= 2
    /\ \E e \in InputEvents : \E i \in 1..Len(runs[1]) :
           /\ IsPlacementOf(runs[1][i], e)
           /\ runs[1][i].register # register_options(e.registers).regs[1]
           /\ Cardinality({x \in InputEvents : x.event = e.event}) = 1

\* C21: whenever build_minimal_runs returns, no returned run is empty, there
\* are at most as many runs as distinct input events (none for an empty
\* input), and the list follows the run indices 0, 1, 2, ... without a gap:
\* run number k of the list is the dict stored under run index k - 1, and
\* every sweep made has its run.
C21_RunsDenseNonEmpty ==
    pc = "returned" =>
        /\ \A k \in 1..Len(runs) : runs[k] # <<>>
        /\ Len(runs) <= Cardinality(InputEvents)
        /\ (arg_events = <<>>) => (runs = <<>>)
        /\ Len(runs) = Len(scheduled_runs)
        /\ Len(runs) = cur_run
        /\ \A k \in 1..Len(scheduled_runs) :
               /\ scheduled_runs[k].key = k - 1
               /\ runs[k] = dict_values(scheduled_runs[k].val)

\* three distinct events were returned in two runs after two sweeps
C21_Witness ==
    /\ pc = "returned"
    /\ Cardinality(InputEvents) = 3
    /\ Len(runs) = 2
    /\ cur_run = 2

\* ------------------------------------------------------------------------
\* Properties of Benchmark.analyze: failures, merging and resolution
\* ------------------------------------------------------------------------
\* the outcomes of a perfctr invocation that failed: sys.exit(1) of lines
\* 215-218 and 234-238, the uncaught OSError of line 235
FailedOutcomes == {"exit", "os_error"}

\* C11: a profiling invocation that fails is the last one of the analysis:
\* it is not repeated, no later probe or run is invoked, the analysis has
\* ended with that failure and no result object is published.
C11_FailureAborts ==
    \A i \in 1..Len(calls) :
        calls[i].outcome \in FailedOutcomes =>
            /\ i = Len(calls)
            /\ apc = calls[i].outcome
            /\ results = results_none

\* a scheduled run failed after an earlier run succeeded and while a later
\* run was still to be measured
C11_Witness ==
    /\ Len(calls) >= 2
    /\ calls[Len(calls)].kind = "run"
    /\ calls[Len(calls)].outcome \in FailedOutcomes
    /\ calls[Len(calls) - 1].kind = "run"
    /\ calls[Len(calls) - 1].outcome = "ok"
    /\ run_i < Len(minimal_runs)

\* run number j (raw_results[j + 1]) reported a value for the register under
\* the event
reported_by(j, event, reg) ==
    /\ has_key(raw_results[j + 1], event)
    /\ has_key(dict_get(raw_results[j + 1], event), reg)

\* every scheduled run has been measured
AllRunsMeasured ==
    /\ apc \in {"runs", "normalise", "publish", "done", "key_error", "attribute_error"}
    /\ Calibrated
    /\ ~no_phenoecm
    /\ run_i > Len(minimal_runs)

\* C12: once every scheduled run has been measured, measured_ctrs is the
\* union of the runs' results: a value a run reported for a register under
\* an event is found there under that event and register, unless a later
\* run reported that same event and register again.
C12_UnionOfRuns ==
    AllRunsMeasured =>
        \A j \in 1..Len(minimal_runs) :
            \A e \in 1..Len(raw_results[j + 1]) :
                \A k \in 1..Len(raw_results[j + 1][e].val) :
                    LET event == raw_results[j + 1][e].key
                        reg   == raw_results[j + 1][e].val[k].key
                    IN  (\A l \in (j + 1)..Len(minimal_runs) : ~reported_by(l, event, reg)) =>
                            /\ has_key(measured_ctrs, event)
                            /\ has_key(dict_get(measured_ctrs, event), reg)
                            /\ dict_get(dict_get(measured_ctrs, event), reg)
                                   = raw_results[j + 1][e].val[k].val

\* symbol resolution has ended without an exception
Resolved ==
    /\ apc \in {"normalise", "publish", "done"}
    /\ ~no_phenoecm

\* the positions of the candidate registers of symbol number i that
\* measured_ctrs holds under the symbol's event
present_candidates(i) ==
    LET ctr  == event_counters[i].val
        regs == register_options(ctr.registers).regs
    IN  {k \in 1..Len(regs) : has_key(dict_get(measured_ctrs, ctr.event), regs[k])}

\* C13: a resolved symbol is bound to the value of the first register of
\* its descriptor's expansion that measured_ctrs holds under its event,
\* also when later registers of the expansion are held there as well.
C13_FirstPresentWins ==
    Resolved =>
        \A i \in 1..Len(event_counters) :
            LET ctr   == event_counters[i].val
                regs  == register_options(ctr.registers).regs
                first == CHOOSE k \in present_candidates(i) :
                             \A l \in present_candidates(i) : k <= l
            IN  present_candidates(i) # {} =>
                    /\ has_key(event_counter_results, event_counters[i].key)
                    /\ dict_get(event_counter_results, event_counters[i].key)
                           = dict_get(dict_get(measured_ctrs, ctr.event), regs[first])

\* C14: resolution never ends in the KeyError of a missing event, and when
\* it ends without an exception every symbol of event_counters is bound.
C14_MissingCounterIsExplicit ==
    /\ ~(apc = "key_error" /\ Calibrated)
    /\ Resolved =>
           \A i \in 1..Len(event_counters) :
               has_key(event_counter_results, event_counters[i].key)

\* the invocations are in order: every probe comes before every run, the
\* n-th run invoked is minimal_runs[n], no run is invoked twice or beyond
\* the list, and none at all without the phenomenological model
calls_in_order ==
    /\ \A i \in ProbeCalls : \A j \in RunCalls : i < j
    /\ \A j \in RunCalls :
           /\ j - NumProbes <= Len(minimal_runs)
           /\ calls[j].group = minimal_runs[j - NumProbes]
    /\ (RunCalls # {}) => (Calibrated /\ LastProbe.outcome = "ok")
    /\ no_phenoecm => RunCalls = {}
    /\ (apc \in {"normalise", "publish", "done"} /\ ~no_phenoecm) =>
           Cardinality(RunCalls) = Len(minimal_runs)

\* one step completes at most one invocation and leaves the earlier ones
\* as they are; while a probe is running no run is invoked
one_call_at_a_time ==
    /\ Len(calls') <= Len(calls) + 1
    /\ Len(calls') >= Len(calls)
    /\ SubSeq(calls', 1, Len(calls)) = calls
    /\ (apc = "probe" /\ calls' # calls) => calls'[Len(calls')].kind = "probe"

\* C18: the invocations of one analyze call are strictly sequential and
\* ordered: one at a time, every calibration probe before the first
\* scheduled run, the scheduled runs in run-index order and each exactly
\* once, none when the phenomenological model is disabled.
C18_SequentialOrdered == [](calls_in_order) /\ [][one_call_at_a_time]_vars

\* an analysis with several probes and three scheduled runs has finished
C18_Witness ==
    /\ apc = "done"
    /\ NumProbes >= 2
    /\ Len(minimal_runs) = 3
    /\ Cardinality(RunCalls) = 3

\* ------------------------------------------------------------------------
\* Properties of register_options
\* ------------------------------------------------------------------------
\* C15: consuming register_options(regdescr) never raises, and for the
\* empty descriptor the values consumed are exactly [None].
C15_Total ==
    /\ fn_pc # "raised"
    /\ (fn_pc = "stopped" /\ fn_arg = <<>>) => fn_result = <<None>>

\* the alphabet members from x to y inclusive, in alphabet order; none when
\* y precedes x
ref_range(x, y) ==
    LET ix == index(ordered_chars, x)
        iy == index(ordered_chars, y)
        between == {i \in 1..Len(ordered_chars) : ix <= i /\ i <= iy}
    IN  [k \in 1..Cardinality(between) |-> ordered_chars[ix + k - 1]]

\* the characters a bracket group's content stands for, read from
\* position i on
RECURSIVE ref_group(_, _)
ref_group(g, i) ==
    IF i > Len(g) THEN <<>>
    ELSE IF i + 2 <= Len(g) /\ IsAlnum(g[i]) /\ g[i + 1] = "-" /\ IsAlnum(g[i + 2])
         THEN ref_range(g[i], g[i + 2]) \o ref_group(g, i + 3)
         ELSE <<g[i]>> \o ref_group(g, i + 1)

\* the tokens of an alternative from position i on, each as the sequence of
\* characters it stands for: a bracket group with a non-empty content, or a
\* literal character
RECURSIVE ref_tokens(_, _)
ref_tokens(alt, i) ==
    IF i > Len(alt) THEN <<>>
    ELSE LET closing == {j \in (i + 1)..Len(alt) : alt[j] = "]"}
             j       == CHOOSE c \in closing : \A d \in closing : c <= d
         IN  IF alt[i] = "[" /\ closing # {} /\ j >= i + 2
             THEN <<ref_group(SubSeq(alt, i + 1, j - 1), 1)>> \o ref_tokens(alt, j + 1)
             ELSE <<(<<alt[i]>>)>> \o ref_tokens(alt, i + 1)

\* the product of the lengths of toks[k..]
RECURSIVE ref_weight(_, _)
ref_weight(toks, k) == IF k > Len(toks) THEN 1 ELSE Len(toks[k]) * ref_weight(toks, k + 1)

\* the Cartesian concatenation of the tokens in row-major order: name
\* number n takes from token k the character at digit k of n - 1 written in
\* the mixed radix of the token lengths, leftmost digit most significant
ref_product(toks) ==
    [n \in 1..ref_weight(toks, 1) |->
        [k \in 1..Len(toks) |->
            toks[k][(((n - 1) \div ref_weight(toks, k + 1)) % Len(toks[k])) + 1]]]

\* the alternatives' products, left to right, duplicates kept
RECURSIVE ref_concat(_)
ref_concat(alts) ==
    IF alts = <<>> THEN <<>>
    ELSE ref_product(ref_tokens(Head(alts), 1)) \o ref_concat(Tail(alts))

ref_expansion(d) == ref_concat(split(d, "|"))

\* C16: the list that list(register_options(regdescr)) builds equals the
\* reference expansion of the descriptor: the alternatives left to right,
\* each the row-major Cartesian concatenation of its tokens' characters, a
\* range x-y standing for the alphabet members from x to y inclusive.
C16_ReferenceExpansion ==
    fn_pc = "stopped" => fn_result = ref_expansion(fn_arg)

\* CBOX[0-3]C[01] has been expanded to its 8 names
C16_Witness ==
    /\ fn_pc = "stopped"
    /\ fn_arg = CBOX03C01
    /\ Len(fn_result) = 8
    /\ fn_result[2] = <<"C","B","O","X","0","C","1">>

\* ------------------------------------------------------------------------
\* Properties of Benchmark.perfctr
\* ------------------------------------------------------------------------
\* C17: parsing the tool's output never fails: no line, whatever the lines
\* before it stored, ends the loop with an exception.
C17_ParsingNeverFails == fn_pc # "type_error"

\* ------------------------------------------------------------------------
\* Properties of eventstr
\* ------------------------------------------------------------------------
\* eventstr was called with the keyword arguments event and register only
keywords_only ==
    /\ ~fn_arg.event_tuple.given
    /\ fn_arg.event # None
    /\ fn_arg.register # None
    /\ fn_arg.parameters = no_parameters

\* C19: eventstr(event=E, register=R) returns 'E:R', the string that
\* eventstr((E, R)) and eventstr((E, R, None)) return; it does not raise.
C19_KeywordCall ==
    (fn_pc # "eventstr" /\ keywords_only) =>
        LET pair   == [fn_arg EXCEPT !.event_tuple =
                          event_tuple(<<fn_arg.event, fn_arg.register>>)]
            triple == [fn_arg EXCEPT !.event_tuple =
                          event_tuple(<<fn_arg.event, fn_arg.register, no_parameters>>)]
        IN  /\ fn_pc = "returned"
            /\ fn_result = fn_arg.event \o <<":">> \o fn_arg.register
            /\ fn_result = eventstr(pair).value
            /\ fn_result = eventstr(triple).value

====
